---- MODULE Spec2Model ----
(***************************************************************************)
(* A model of the trie-mux pattern trie (src/trie.go): Define builds the   *)
(* tree of nodes, Match walks it for a concrete path.                      *)
(*                                                                         *)
(* Strings are sequences of one-character strings, so that slicing,        *)
(* splitting, case folding and suffix tests are computed character by      *)
(* character as the Go code does.  Go's 0-based half-open slices s[lo:hi]  *)
(* are written Slice(s, lo, hi).  A node pointer is the index of the node  *)
(* in the sequence nodes; the nil pointer is 0; the root is node 1.        *)
(***************************************************************************)
EXTENDS Integers, Sequences, FiniteSets, TLC

VARIABLES ignoreCase, fpr, tsr, nodes, op, arg, ret, panicked, matched, first, defines, inputs,
          calls, hcall, registered, handles, otherwise, served

vars == <<ignoreCase, fpr, tsr, nodes, op, arg, ret, panicked, matched, first, defines, inputs,
          calls, hcall, registered, handles, otherwise, served>>

(***************************************************************************)
(* Bounds                                                                  *)
(***************************************************************************)
\* the number of Define calls of a behaviour of Spec and of SpecVary
MaxDefines == 2

MaxVaryDefines == 3

\* the number of Define calls of a behaviour of SpecEdge
MaxEdgeDefines == 2

\* the number of Define calls of a behaviour of SpecConc and the number of
\* goroutines that call Match at the same time
MaxConcDefines == 2

MaxCallers == 2

\* the number of Define calls and of Handle calls of a behaviour of SpecMux
MaxMuxDefines == 1

MaxHandles == 2

(***************************************************************************)
(* Strings                                                                 *)
(***************************************************************************)
Slice(s, lo, hi) == SubSeq(s, lo + 1, hi)

At(s, i) == s[i + 1]

Lower == [c \in {"A", "S", "X"} |-> IF c = "A" THEN "a" ELSE IF c = "S" THEN "s" ELSE "x"]

ToLower(s) == [i \in 1..Len(s) |-> IF s[i] \in DOMAIN Lower THEN Lower[s[i]] ELSE s[i]]

Upper == [c \in {"a", "g", "p"} |-> IF c = "a" THEN "A" ELSE IF c = "g" THEN "G" ELSE "P"]

ToUpper(s) == [i \in 1..Len(s) |-> IF s[i] \in DOMAIN Upper THEN Upper[s[i]] ELSE s[i]]

HasPrefix(s, p) == Len(s) >= Len(p) /\ SubSeq(s, 1, Len(p)) = p

HasSuffix(s, p) == Len(s) >= Len(p) /\ SubSeq(s, Len(s) - Len(p) + 1, Len(s)) = p

Contains(s, p) == \E i \in 0..(Len(s) - Len(p)) : Slice(s, i, i + Len(p)) = p

TrimPrefix(s, p) == IF HasPrefix(s, p) THEN Slice(s, Len(p), Len(s)) ELSE s

\* strings.IndexRune: the 0-based index of the first c in s, -1 if none
IndexRune(s, c) ==
    IF \E i \in 1..Len(s) : s[i] = c
    THEN (CHOOSE i \in 1..Len(s) : s[i] = c /\ \A j \in 1..(i - 1) : s[j] # c) - 1
    ELSE -1

RECURSIVE Split(_, _)
\* strings.Split(s, sep) for a one-character separator
Split(s, sep) ==
    LET i == IndexRune(s, sep)
    IN  IF i = -1 THEN <<s>>
        ELSE <<Slice(s, 0, i)>> \o Split(Slice(s, i + 1, Len(s)), sep)

(***************************************************************************)
(* The regular expressions of src/trie.go:40-44                            *)
(***************************************************************************)
WordChars == {"a", "A", "b", "s", "S", "x", "X", "y", "_", "0", "1"}

PathChars == WordChars \cup {"!", "$", "%", "&", "'", "*", "+", ",", "-", ".", ":", ";", "=", "@", "~"}

\* wordReg = ^\w+$
wordReg(s) == Len(s) > 0 /\ \A i \in 1..Len(s) : s[i] \in WordChars

\* suffixReg = \+[A-Za-z0-9!$%&'*+,-.:;=@_~]*$ ; FindString gives the
\* leftmost match, "" when there is none
suffixRegFind(s) ==
    LET ok(i) == s[i] = "+" /\ \A j \in (i + 1)..Len(s) : s[j] \in PathChars
    IN  IF \E i \in 1..Len(s) : ok(i)
        THEN LET i == CHOOSE k \in 1..Len(s) : ok(k) /\ \A j \in 1..(k - 1) : ~ok(j)
             IN  SubSeq(s, i, Len(s))
        ELSE <<>>

\* doubleColonReg = ^::[A-Za-z0-9!$%&'*+,-.:;=@_~]*$
doubleColonReg(s) ==
    /\ Len(s) >= 2
    /\ s[1] = ":"
    /\ s[2] = ":"
    /\ \A j \in 3..Len(s) : s[j] \in PathChars

\* multiSlashReg = /{2,} ; ReplaceAllString(path, "/") keeps the first '/'
\* of every run and drops the others
multiSlashReplace(s) ==
    LET keep == {i \in 1..Len(s) : ~(s[i] = "/" /\ i > 1 /\ s[i - 1] = "/")}
        RECURSIVE pick(_)
        pick(i) == IF i > Len(s) THEN <<>>
                   ELSE (IF i \in keep THEN <<s[i]>> ELSE <<>>) \o pick(i + 1)
    IN  pick(1)

\* regexp.MustCompile(re).MatchString(s) for the expressions the patterns
\* of this model use: literal characters, optionally anchored by a leading
\* ^ and a trailing $.  An unanchored expression matches anywhere in s.
regexMatchString(re, s) ==
    LET aS   == Len(re) > 0 /\ re[1] = "^"
        re1  == IF aS THEN Slice(re, 1, Len(re)) ELSE re
        aE   == Len(re1) > 0 /\ re1[Len(re1)] = "$"
        body == IF aE THEN Slice(re1, 0, Len(re1) - 1) ELSE re1
    IN  \E i \in 0..(Len(s) - Len(body)) :
            /\ Slice(s, i, i + Len(body)) = body
            /\ aS => i = 0
            /\ aE => i + Len(body) = Len(s)

(***************************************************************************)
(* Nodes                                                                   *)
(***************************************************************************)
NoChildren == <<>>

\* &Node{segment: segment, parent: parent, children: make(map), ...}
newNode(segment, parent) ==
    [segment |-> segment, parent |-> parent, name |-> <<>>, suffix |-> <<>>,
     regex |-> <<>>, wildcard |-> FALSE, endpoint |-> FALSE, pattern |-> <<>>,
     varyChildren |-> <<>>, children |-> NoChildren, handlers |-> <<>>, allow |-> <<>>]

\* n.children[key], 0 when the key is absent
getChild(ns, n, key) ==
    IF key \in DOMAIN ns[n].children THEN ns[n].children[key] ELSE 0

\* parent.children[key] = node, node being appended to the node store
putChild(ns, parent, key, node) ==
    [Append(ns, node) EXCEPT ![parent].children =
        [k \in (DOMAIN ns[parent].children) \cup {key} |->
            IF k = key THEN Len(ns) + 1 ELSE ns[parent].children[k]]]

(***************************************************************************)
(* Handlers: a handler is a number, 0 being the nil interface value        *)
(***************************************************************************)
\* n.handlers[method], nil when the method has no entry
GetHandler(ns, n, method) ==
    IF method \in DOMAIN ns[n].handlers THEN ns[n].handlers[method] ELSE 0

\* n.handlers[method] = handler
putHandler(handlers, method, handler) ==
    [m \in (DOMAIN handlers) \cup {method} |-> IF m = method THEN handler ELSE handlers[m]]

\* the allow string after one more method
addAllow(allow, method) == IF allow = <<>> THEN method ELSE allow \o <<",", " ">> \o method

\* the handler stored whatever was registered before
HandleOverwrite(ns, n, method, handler) ==
    [nodes |-> [ns EXCEPT ![n].handlers = putHandler(ns[n].handlers, method, handler),
                          ![n].allow = addAllow(ns[n].allow, method)],
     node |-> n, panic |-> FALSE]

\* Node.Handle: the node store after the call and whether it panicked
Handle(ns, n, method, handler) ==
    IF GetHandler(ns, n, method) # 0 THEN [nodes |-> ns, node |-> n, panic |-> TRUE]
    ELSE [nodes |-> [ns EXCEPT ![n].handlers = putHandler(ns[n].handlers, method, handler),
                               ![n].allow = addAllow(ns[n].allow, method)],
          node |-> n, panic |-> FALSE]

(***************************************************************************)
(* Define                                                                  *)
(***************************************************************************)
\* what a call returns: the node store after it, the node returned (0 when
\* the call panicked) and whether it panicked
Outcome(ns, node, panic) == [nodes |-> ns, node |-> node, panic |-> panic]

\* the less function that looks at the suffix only
sortLessSuffixOnly(a, b) ==
    IF a.suffix = <<>> /\ b.suffix # <<>> THEN FALSE
    ELSE IF a.suffix # <<>> /\ b.suffix = <<>> THEN TRUE
    ELSE FALSE

\* the less function handed to sort.SliceStable, on two nodes
sortLess(a, b) ==
    IF a.suffix = <<>> /\ b.suffix # <<>> THEN FALSE
    ELSE IF a.suffix # <<>> /\ b.suffix = <<>> THEN TRUE
    ELSE IF a.regex # <<>> /\ b.regex = <<>> THEN TRUE
    ELSE FALSE

RECURSIVE insertionStep(_, _, _)
\* the inner loop of the insertion sort: for j := i; j > a && less(j, j-1); j--
insertionStep(ns, s, j) ==
    IF j > 1 /\ sortLess(ns[s[j]], ns[s[j - 1]])
    THEN insertionStep(ns, [s EXCEPT ![j] = s[j - 1], ![j - 1] = s[j]], j - 1)
    ELSE s

RECURSIVE insertionSort(_, _, _)
\* sort.SliceStable on a slice of fewer than 20 elements is an insertion sort
insertionSort(ns, s, i) ==
    IF i > Len(s) THEN s ELSE insertionSort(ns, insertionStep(ns, s, i), i + 1)

\* the slice left in append order
SliceUnsorted(ns, s) == s

SliceStable(ns, s) == IF Len(s) > 1 THEN insertionSort(ns, s, 2) ELSE s

\* the parsed form of a ':' segment; ok is FALSE where the code panics
Param(name, suffix, regex, wildcard) ==
    [ok |-> wordReg(name), name |-> name, suffix |-> suffix, regex |-> regex,
     wildcard |-> wildcard]

BadParam == [ok |-> FALSE, name |-> <<>>, suffix |-> <<>>, regex |-> <<>>, wildcard |-> FALSE]

\* src/trie.go:406-416, index being strings.IndexRune(name, '(') > 0
parseRegex(name, index, suffix) ==
    IF Len(Slice(name, index + 1, Len(name) - 1)) > 0
    THEN Param(Slice(name, 0, index), suffix, Slice(name, index + 1, Len(name) - 1), FALSE)
    ELSE BadParam

\* src/trie.go:406-423; name[len(name)-1] of an empty name panics
parseNamed(name, suffix) ==
    IF Len(name) = 0 THEN BadParam
    ELSE IF name[Len(name)] = ")" /\ IndexRune(name, "(") > 0
    THEN parseRegex(name, IndexRune(name, "("), suffix)
    ELSE Param(name, suffix, <<>>, FALSE)

\* src/trie.go:397-404, suffix being suffixReg.FindString(name)
parseSuffix(name, suffix) ==
    IF suffix = <<>> THEN parseNamed(name, <<>>)
    ELSE IF Len(suffix) = 1 THEN BadParam
    ELSE parseNamed(Slice(name, 0, Len(name) - Len(suffix)), Slice(suffix, 1, Len(suffix)))

\* src/trie.go:389-423, name being segment[1:]
parseName(name) ==
    IF Len(name) = 0 THEN BadParam
    ELSE IF name[Len(name)] = "*" THEN Param(Slice(name, 0, Len(name) - 1), <<>>, <<>>, TRUE)
    ELSE parseSuffix(name, suffixRegFind(name))

parseParam(segment) == parseName(Slice(segment, 1, Len(segment)))

\* the outcome of a call that attached the last node of the store
created(after) == Outcome(after, Len(after), FALSE)

\* parent.varyChildren = append(parent.varyChildren, node), then the sort
appendVary(ns, parent, node) ==
    [Append(ns, node) EXCEPT ![parent].varyChildren =
        SliceStable(Append(ns, node), Append(ns[parent].varyChildren, Len(ns) + 1))]

\* the comparison without the test of the names: an equal sibling of another
\* name is passed over
siblingAnyName(child, node) ==
    IF child.wildcard
    THEN IF ~node.wildcard THEN "panic"
         ELSE IF child.name # node.name THEN "panic"
         ELSE "return"
    ELSE IF child.suffix # node.suffix THEN "next"
    ELSE IF \/ ~node.wildcard /\ (child.regex = <<>> /\ node.regex = <<>>)
            \/ child.regex # <<>> /\ node.regex # <<>> /\ child.regex = node.regex
    THEN IF child.name # node.name THEN "next" ELSE "return"
    ELSE "next"

\* the comparison in which a wildcard sibling only stops another wildcard
siblingAfterWildcard(child, node) ==
    IF child.wildcard
    THEN IF ~node.wildcard THEN "next"
         ELSE IF child.name # node.name THEN "panic"
         ELSE "return"
    ELSE IF child.suffix # node.suffix THEN "next"
    ELSE IF \/ ~node.wildcard /\ (child.regex = <<>> /\ node.regex = <<>>)
            \/ child.regex # <<>> /\ node.regex # <<>> /\ child.regex = node.regex
    THEN IF child.name # node.name THEN "panic" ELSE "return"
    ELSE "next"

\* src/trie.go:426-446: the new node against one existing sibling; "next"
\* stands for the continue of the loop
sibling(child, node) ==
    IF child.wildcard
    THEN IF ~node.wildcard THEN "panic"
         ELSE IF child.name # node.name THEN "panic"
         ELSE "return"
    ELSE IF child.suffix # node.suffix THEN "next"
    ELSE IF \/ ~node.wildcard /\ (child.regex = <<>> /\ node.regex = <<>>)
            \/ child.regex # <<>> /\ node.regex # <<>> /\ child.regex = node.regex
    THEN IF child.name # node.name THEN "panic" ELSE "return"
    ELSE "next"

RECURSIVE reconcile(_, _, _, _)
\* src/trie.go:425-463: the loop over the existing parametric siblings
reconcile(ns, parent, node, k) ==
    IF k > Len(ns[parent].varyChildren) THEN created(appendVary(ns, parent, node))
    ELSE IF sibling(ns[ns[parent].varyChildren[k]], node) = "panic" THEN Outcome(ns, 0, TRUE)
    ELSE IF sibling(ns[ns[parent].varyChildren[k]], node) = "return"
    THEN Outcome(ns, ns[parent].varyChildren[k], FALSE)
    ELSE reconcile(ns, parent, node, k + 1)

\* src/trie.go:388-463: the case segment[0] == ':'
parseVary(ns, parent, node, p) ==
    IF ~p.ok THEN Outcome(ns, 0, TRUE)
    ELSE reconcile(ns, parent,
                   [node EXCEPT !.name = p.name, !.suffix = p.suffix,
                                !.regex = p.regex, !.wildcard = p.wildcard], 1)

\* src/trie.go:360-366: the key a segment is stored and looked up by
segmentKey(segment, ic) ==
    IF doubleColonReg(segment)
    THEN (IF ic THEN ToLower(Slice(segment, 1, Len(segment))) ELSE Slice(segment, 1, Len(segment)))
    ELSE (IF ic THEN ToLower(segment) ELSE segment)

\* src/trie.go:367-475, _segment being the key of the segment
parseKeyed(ns, parent, segment, _segment) ==
    IF getChild(ns, parent, _segment) # 0 THEN Outcome(ns, getChild(ns, parent, _segment), FALSE)
    ELSE IF segment = <<>>
    THEN created(putChild(ns, parent, segment, newNode(segment, parent)))
    ELSE IF doubleColonReg(segment)
    THEN created(putChild(ns, parent, _segment, newNode(segment, parent)))
    ELSE IF segment[1] = ":"
    THEN parseVary(ns, parent, newNode(segment, parent), parseParam(segment))
    ELSE IF segment[1] \in {"*", "(", ")"} THEN Outcome(ns, 0, TRUE)
    ELSE IF segment[Len(segment)] = "*"
    THEN created(putChild(ns, parent, Slice(_segment, 0, Len(_segment) - 1),
                          [newNode(segment, parent) EXCEPT !.wildcard = TRUE]))
    ELSE created(putChild(ns, parent, _segment, newNode(segment, parent)))

parseNode(ns, parent, segment, ic) ==
    parseKeyed(ns, parent, segment, segmentKey(segment, ic))

RECURSIVE defineNode(_, _, _, _)
RECURSIVE defineChild(_, _, _)
\* the node of a segment that is not the last stops being an endpoint
defineChildLeafOnly(r, segments, ic) ==
    IF r.panic THEN r
    ELSE IF Len(segments) = 1
    THEN Outcome([r.nodes EXCEPT ![r.node].endpoint = TRUE], r.node, FALSE)
    ELSE IF r.nodes[r.node].wildcard THEN Outcome(r.nodes, 0, TRUE)
    ELSE defineNode([r.nodes EXCEPT ![r.node].endpoint = FALSE], r.node, Tail(segments), ic)

\* src/trie.go:329-336, r being the outcome of parseNode for segments[0]
defineChild(r, segments, ic) ==
    IF r.panic THEN r
    ELSE IF Len(segments) = 1
    THEN Outcome([r.nodes EXCEPT ![r.node].endpoint = TRUE], r.node, FALSE)
    ELSE IF r.nodes[r.node].wildcard THEN Outcome(r.nodes, 0, TRUE)
    ELSE defineNode(r.nodes, r.node, Tail(segments), ic)

defineNode(ns, parent, segments, ic) ==
    defineChild(parseNode(ns, parent, Head(segments), ic), segments, ic)

\* src/trie.go:127-130, r being the outcome of defineNode
definePattern(r, pattern) ==
    IF r.panic THEN r
    ELSE IF r.nodes[r.node].pattern = <<>>
    THEN Outcome([r.nodes EXCEPT ![r.node].pattern = pattern], r.node, FALSE)
    ELSE r

\* src/trie.go:121-124: the pattern without leading '/' and query
trimPattern(trimmed) ==
    IF IndexRune(trimmed, "?") > -1 THEN Slice(trimmed, 0, IndexRune(trimmed, "?")) ELSE trimmed

\* Trie.Define
DefineCall(ns, pattern, ic) ==
    IF Contains(pattern, <<"/", "/">>) THEN Outcome(ns, 0, TRUE)
    ELSE definePattern(defineNode(ns, 1, Split(trimPattern(TrimPrefix(pattern, <<"/">>)), "/"), ic),
                       pattern)

(***************************************************************************)
(* Match                                                                   *)
(***************************************************************************)
fixPath(path) ==
    IF ~Contains(path, <<"/", "/">>) THEN path ELSE multiSlashReplace(path)

\* the test of one parametric child in the loop of matchNode
accepts(child, segment) ==
    LET stripped == IF child.suffix # <<>>
                    THEN Slice(segment, 0, Len(segment) - Len(child.suffix))
                    ELSE segment
    IN  /\ child.suffix # <<>> => (segment # child.suffix /\ HasSuffix(segment, child.suffix))
        /\ child.regex # <<>> => regexMatchString(child.regex, stripped)

RECURSIVE matchVary(_, _, _, _)
\* for _, child = range parent.varyChildren
matchVary(ns, parent, segment, k) ==
    IF k > Len(ns[parent].varyChildren) THEN 0
    ELSE IF accepts(ns[ns[parent].varyChildren[k]], segment) THEN ns[parent].varyChildren[k]
    ELSE matchVary(ns, parent, segment, k + 1)

\* the parametric children tried before the literal child
matchNodeParamFirst(ns, parent, segment) ==
    IF matchVary(ns, parent, segment, 1) # 0 THEN matchVary(ns, parent, segment, 1)
    ELSE getChild(ns, parent, segment)

matchNode(ns, parent, segment) ==
    IF getChild(ns, parent, segment) # 0 THEN getChild(ns, parent, segment)
    ELSE matchVary(ns, parent, segment, 1)

\* a Matched value; Node 0 is nil, Params <<>> is the nil map
Result(node, params, fprPath, tsrPath) ==
    [Node |-> node, Params |-> params, FPR |-> fprPath, TSR |-> tsrPath]

\* matched.Params[name] = value
setParam(params, name, value) ==
    [n \in (DOMAIN params) \cup {name} |-> IF n = name THEN value ELSE params[n]]

\* the value taken from the folded segment
captureFolded(node, segment) ==
    IF node.suffix # <<>>
    THEN Slice(ToLower(segment), 0, Len(segment) - Len(node.suffix))
    ELSE ToLower(segment)

\* the value stored for a non-wildcard parameter (src/trie.go:183-186)
capture(node, segment) ==
    IF node.suffix # <<>> THEN Slice(segment, 0, Len(segment) - Len(node.suffix)) ELSE segment

\* the switch with the '' child looked for before the endpoint flag
matchEndSlashFirst(ns, opts, path, fixedLen, parent, params) ==
    IF opts.tsr /\ getChild(ns, parent, <<>>) # 0
    THEN IF opts.fpr /\ fixedLen > 0
         THEN Result(0, params, path \o <<"/">>, <<>>)
         ELSE Result(0, params, <<>>, path \o <<"/">>)
    ELSE IF ns[parent].endpoint
    THEN IF opts.fpr /\ fixedLen > 0
         THEN Result(0, params, path, <<>>)
         ELSE Result(parent, params, <<>>, <<>>)
    ELSE Result(0, params, <<>>, <<>>)

\* the switch that adds the slash without looking for the '' child
matchEndAnySlash(ns, opts, path, fixedLen, parent, params) ==
    IF ns[parent].endpoint
    THEN IF opts.fpr /\ fixedLen > 0
         THEN Result(0, params, path, <<>>)
         ELSE Result(parent, params, <<>>, <<>>)
    ELSE IF opts.tsr
    THEN IF opts.fpr /\ fixedLen > 0
         THEN Result(0, params, path \o <<"/">>, <<>>)
         ELSE Result(0, params, <<>>, path \o <<"/">>)
    ELSE Result(0, params, <<>>, <<>>)

\* the switch that leaves the endpoint in Node beside the fixed path
matchEndKeepsNode(ns, opts, path, fixedLen, parent, params) ==
    IF ns[parent].endpoint
    THEN IF opts.fpr /\ fixedLen > 0
         THEN Result(parent, params, path, <<>>)
         ELSE Result(parent, params, <<>>, <<>>)
    ELSE IF opts.tsr /\ getChild(ns, parent, <<>>) # 0
    THEN IF opts.fpr /\ fixedLen > 0
         THEN Result(0, params, path \o <<"/">>, <<>>)
         ELSE Result(0, params, <<>>, path \o <<"/">>)
    ELSE Result(0, params, <<>>, <<>>)

\* src/trie.go:192-206: the switch after the loop
matchEnd(ns, opts, path, fixedLen, parent, params) ==
    IF ns[parent].endpoint
    THEN IF opts.fpr /\ fixedLen > 0
         THEN Result(0, params, path, <<>>)
         ELSE Result(parent, params, <<>>, <<>>)
    ELSE IF opts.tsr /\ getChild(ns, parent, <<>>) # 0
    THEN IF opts.fpr /\ fixedLen > 0
         THEN Result(0, params, path \o <<"/">>, <<>>)
         ELSE Result(0, params, <<>>, path \o <<"/">>)
    ELSE Result(0, params, <<>>, <<>>)

RECURSIVE matchLoop(_, _, _, _, _, _, _, _)
\* src/trie.go:152-190: for i := 1; i <= end; i++
matchLoop(ns, opts, path, fixedLen, i, start, parent, params) ==
    LET end == Len(path)
    IN  IF i > end THEN matchEnd(ns, opts, path, fixedLen, parent, params)
        ELSE IF i < end /\ At(path, i) # "/"
        THEN matchLoop(ns, opts, path, fixedLen, i + 1, start, parent, params)
        ELSE LET segment  == Slice(path, start, i)
                 _segment == IF opts.ignoreCase THEN ToLower(segment) ELSE segment
                 node     == matchNode(ns, parent, _segment)
             IN  IF node = 0
                 THEN IF opts.tsr /\ ns[parent].endpoint /\ i = end /\ segment = <<>>
                      THEN IF opts.fpr /\ fixedLen > 0
                           THEN Result(0, params, Slice(path, 0, end - 1), <<>>)
                           ELSE Result(0, params, <<>>, Slice(path, 0, end - 1))
                      ELSE Result(0, params, <<>>, <<>>)
                 ELSE IF ns[node].name # <<>>
                 THEN IF ns[node].wildcard
                      THEN matchEnd(ns, opts, path, fixedLen, node,
                                    setParam(params, ns[node].name, Slice(path, start, end)))
                      ELSE matchLoop(ns, opts, path, fixedLen, i + 1, i + 1, node,
                                     setParam(params, ns[node].name, capture(ns[node], segment)))
                 ELSE matchLoop(ns, opts, path, fixedLen, i + 1, i + 1, node, params)

\* the normalised path walked without recording that it was changed
MatchCallNotDirty(ns, opts, path) ==
    matchLoop(ns, opts, IF opts.fpr THEN fixPath(path) ELSE path, 0, 1, 1, 1, <<>>)

\* the path normalised whatever the fpr option
MatchCallAlwaysFixed(ns, opts, path) ==
    matchLoop(ns, opts, fixPath(path), Len(path) - Len(fixPath(path)), 1, 1, 1, <<>>)

\* Trie.Match, for a path that passes the check of src/trie.go:139
MatchCall(ns, opts, path) ==
    LET fixed    == IF opts.fpr THEN fixPath(path) ELSE path
        fixedLen == IF opts.fpr THEN Len(path) - Len(fixed) ELSE Len(path)
    IN  matchLoop(ns, opts, fixed, fixedLen, 1, 1, 1, <<>>)

(***************************************************************************)
(* Inputs                                                                  *)
(***************************************************************************)
RECURSIVE Join(_)
\* the segments joined by '/'
Join(segs) ==
    IF Len(segs) = 0 THEN <<>>
    ELSE IF Len(segs) = 1 THEN segs[1]
    ELSE segs[1] \o <<"/">> \o Join(Tail(segs))

\* the pattern or path "/" + segments joined by '/'
P(segs) == <<"/">> \o Join(segs)

\* routes of literals, parameters and trailing slashes, two levels deep
Patterns ==
    { P(<< <<>> >>),
      P(<< <<"a">> >>),
      P(<< <<"A">> >>),
      P(<< <<"a">>, <<>> >>),
      P(<< <<":", "x">> >>),
      P(<< <<":", "x", "*">> >>),
      P(<< <<":", "x", "+", "S">> >>),
      P(<< <<":", "x", "+", "s">> >>),
      P(<< <<":", "x", "(", "a", ")">> >>),
      P(<< <<"a">>, <<":", "x">> >>),
      P(<< <<":", "x">>, <<"a">> >>) }

Paths ==
    { <<>>,
      <<"a">>,
      P(<< <<>> >>),
      P(<< <<"a">> >>),
      P(<< <<"A">> >>),
      P(<< <<"b">> >>),
      P(<< <<"a", "S">> >>),
      P(<< <<"a", "s">> >>),
      P(<< <<"S">> >>),
      P(<< <<"a">>, <<>> >>),
      P(<< <<"a">>, <<"a">> >>),
      P(<< <<"b">>, <<"A">> >>),
      P(<< <<"a">>, <<"b">>, <<"a">> >>),
      P(<< <<"A">>, <<"a">>, <<>> >>),
      P(<< <<>>, <<"a">> >>),
      P(<< <<"a">>, <<>>, <<>> >>),
      P(<< <<"a">>, <<>>, <<"a">> >>),
      P(<< <<>>, <<>> >>) }

\* the parametric siblings of one parent, in every class, and the escaped
\* literal ':x'
VaryPatterns ==
    { P(<< <<":", "x">> >>),
      Join(<< <<":", "x">> >>),
      P(<< <<":", "y">> >>),
      P(<< <<":", ":", "x">> >>),
      P(<< <<":", "x", "*">> >>),
      P(<< <<":", "y", "*">> >>),
      P(<< <<":", "x", "+", "S">> >>),
      P(<< <<":", "x", "(", "a", ")">> >>),
      P(<< <<":", "x", "(", "a", ")", "+", "S">> >>) }

VaryPaths ==
    { <<"a">>,
      P(<< <<"a">> >>),
      P(<< <<"b">> >>),
      P(<< <<"a", "S">> >>),
      P(<< <<"b", "S">> >>),
      P(<< <<":", "x">> >>) }

\* patterns at the edges of the grammar: the empty pattern, a query, '*' in
\* and after a literal, a segment after a wildcard, the escaped ':x*'
EdgePatterns ==
    { <<>>,
      P(<< <<>> >>),
      P(<< <<"a">> >>),
      P(<< <<"a", "?", "b">> >>),
      P(<< <<"a", "?">>, <<>>, <<>> >>),
      P(<< <<":", "x", "*">> >>),
      P(<< <<":", ":", "x", "*">> >>),
      P(<< <<":", "x", "*">>, <<"a">> >>),
      P(<< <<"a", "*">> >>),
      P(<< <<"a", "*", "b">> >>),
      P(<< <<"*">> >>) }

EdgePaths ==
    { <<>>,
      P(<< <<>> >>),
      P(<< <<"a">> >>),
      P(<< <<"a", "*">> >>),
      P(<< <<"a", "*", "b">> >>),
      P(<< <<"a", "?", "b">> >>),
      P(<< <<":", "x", "*">> >>),
      P(<< <<":", "x", "*">>, <<"a">> >>),
      P(<< <<"b">>, <<"a">> >>) }

\* two routes that capture parameters of different names
ConcPatterns ==
    { P(<< <<":", "x">>, <<"a">> >>),
      P(<< <<"a">>, <<":", "y">> >>) }

ConcPaths ==
    { <<"a">>,
      P(<< <<"b">>, <<"a">> >>),
      P(<< <<"a">>, <<"b">> >>) }

\* the root written with and without its slash, and one literal route
MuxPatterns ==
    { <<>>,
      P(<< <<>> >>),
      P(<< <<"a">> >>) }

\* method names: empty, in lower and in upper case
Methods == { <<>>, <<"g">>, <<"G">>, <<"P">> }

\* the handlers given to Node.Handle, nil among them, and to Mux.Handle,
\* whose handler is a value of the func type Handle
NodeHandlers == {0, 1}

MuxHandlers == {1}

\* http.MethodGet, http.MethodOptions and http.MethodPut
MethodGet == <<"G", "E", "T">>

MethodOptions == <<"O", "P", "T", "I", "O", "N", "S">>

MethodPut == <<"P", "U", "T">>

\* routes with and without a trailing slash and a route with a parameter
\* before a literal
ServePatterns ==
    { P(<< <<"a">> >>),
      P(<< <<"a">>, <<>> >>),
      P(<< <<":", "x">>, <<"a">> >>) }

ServePaths ==
    { <<"a">>,
      P(<< <<"a">> >>),
      P(<< <<"a">>, <<>> >>),
      P(<< <<>>, <<"a">> >>),
      P(<< <<"b">> >>),
      P(<< <<"b">>, <<"a">> >>) }

\* the methods of the requests and the methods routes are registered for
ServeMethods == {MethodGet, MethodOptions, MethodPut}

RouteMethods == {MethodGet, MethodOptions}

\* the route handlers and the handlers given to Otherwise, nil among them
RouteHandlers == {1}

OtherwiseHandlers == {0, 2}

(***************************************************************************)
(* The state machine                                                       *)
(***************************************************************************)
NoResult == Result(0, <<>>, <<>>, <<>>)

\* what ServeHTTP did for a request: the request method, the status code it
\* wrote (0 when it wrote none), the Location and Allow headers, the handler
\* it called (0 when it called none) and the Params it was called with
Response(method, code, location, allow, handler, params) ==
    [method |-> method, code |-> code, location |-> location, allow |-> allow,
     handler |-> handler, params |-> params]

NoResponse == Response(<<>>, 0, <<>>, <<>>, 0, <<>>)

\* no Handle call made: the node, the method and the handler of the last
\* Handle call
NoHandle == [node |-> 0, method |-> <<>>, handler |-> 0]

\* a goroutine that has not called Match: pc is where the goroutine stands,
\* the other fields are the locals of Match
Idle ==
    [pc |-> "idle", arg |-> <<>>, path |-> <<>>, fixedLen |-> 0, i |-> 0, start |-> 0,
     parent |-> 0, matched |-> NoResult]

opts == [ignoreCase |-> ignoreCase, fpr |-> fpr, tsr |-> tsr]

\* New(Options{...}): a root node and the three option flags
New ==
    /\ ignoreCase \in BOOLEAN
    /\ fpr \in BOOLEAN
    /\ tsr \in BOOLEAN
    /\ nodes = << newNode(<<>>, 0) >>
    /\ op = "New"
    /\ arg = <<>>
    /\ ret = 0
    /\ panicked = FALSE
    /\ matched = NoResult
    /\ first = <<>>
    /\ defines = 0
    /\ calls = [c \in 1..MaxCallers |-> Idle]
    /\ hcall = NoHandle
    /\ registered = <<>>
    /\ handles = 0
    /\ otherwise = 0
    /\ served = NoResponse

Init ==
    /\ New
    /\ inputs = [patterns |-> Patterns, paths |-> Paths, defines |-> MaxDefines]

InitVary ==
    /\ New
    /\ inputs = [patterns |-> VaryPatterns, paths |-> VaryPaths, defines |-> MaxVaryDefines]

InitEdge ==
    /\ New
    /\ inputs = [patterns |-> EdgePatterns, paths |-> EdgePaths, defines |-> MaxEdgeDefines]

\* the node the first successful Define of each pattern string returned
recordFirst(r, pattern) ==
    IF ~r.panic /\ pattern \notin DOMAIN first
    THEN [q \in (DOMAIN first) \cup {pattern} |-> IF q = pattern THEN r.node ELSE first[q]]
    ELSE first

\* the state after a Define call with outcome r
Defined(r, pattern) ==
    /\ nodes' = r.nodes
    /\ ret' = r.node
    /\ panicked' = r.panic
    /\ first' = recordFirst(r, pattern)

\* t.Define(pattern)
Define(pattern) ==
    /\ defines < inputs.defines
    /\ Defined(DefineCall(nodes, pattern, ignoreCase), pattern)
    /\ op' = "Define"
    /\ arg' = pattern
    /\ matched' = NoResult
    /\ defines' = defines + 1
    /\ UNCHANGED <<ignoreCase, fpr, tsr, inputs, calls, hcall, registered, handles, otherwise,
                   served>>

\* the check that refuses the empty path only
badPathEmptyOnly(path) == path = <<>>

\* src/trie.go:139: path == "" || path[0] != '/'
badPath(path) == path = <<>> \/ path[1] # "/"

\* t.Match(path)
Match(path) ==
    /\ op' = "Match"
    /\ arg' = path
    /\ ret' = 0
    /\ IF badPath(path)
       THEN panicked' = TRUE /\ matched' = NoResult
       ELSE panicked' = FALSE /\ matched' = MatchCall(nodes, opts, path)
    /\ UNCHANGED <<ignoreCase, fpr, tsr, nodes, first, defines, inputs, calls, hcall, registered,
                   handles, otherwise, served>>

DefineStep == \E pattern \in inputs.patterns : Define(pattern)

MatchStep == \E path \in inputs.paths : Match(path)

Next == DefineStep \/ MatchStep

Spec == Init /\ [][Next]_vars

SpecVary == InitVary /\ [][Next]_vars

SpecEdge == InitEdge /\ [][Next]_vars

(***************************************************************************)
(* Match step by step: every goroutine runs Match on locals of its own,    *)
(* one loop iteration at a time, against the nodes all of them read        *)
(***************************************************************************)
InitConc ==
    /\ New
    /\ inputs = [patterns |-> ConcPatterns, paths |-> ConcPaths, defines |-> MaxConcDefines]

\* one Params map for all the calls: the map of the first goroutine
sharedParams(cs, c) == cs[1].matched.Params

\* matched := new(Matched): the Params map of the call's own result
ownParams(cs, c) == cs[c].matched.Params

\* the goroutine-local part of a step of goroutine c
Stepped(c, call) ==
    /\ calls' = [calls EXCEPT ![c] = call]
    /\ op' = "MatchStep"
    /\ arg' = call.arg
    /\ UNCHANGED <<ignoreCase, fpr, tsr, nodes, ret, panicked, matched, first, defines, inputs,
                   hcall, registered, handles, otherwise, served>>

\* src/trie.go:139-150: the check of the path, fixPath and the locals
MatchBegin(c, path) ==
    /\ calls[c].pc = "idle"
    /\ Stepped(c, IF badPath(path)
                  THEN [Idle EXCEPT !.pc = "panic", !.arg = path]
                  ELSE [Idle EXCEPT !.pc = "loop", !.arg = path,
                                    !.path = IF fpr THEN fixPath(path) ELSE path,
                                    !.fixedLen = IF fpr THEN Len(path) - Len(fixPath(path))
                                                 ELSE Len(path),
                                    !.i = 1, !.start = 1, !.parent = 1])

\* src/trie.go:160-172: matchNode found no child
noChild(call) ==
    [call EXCEPT !.pc = "done",
                 !.matched = IF tsr /\ nodes[call.parent].endpoint /\ call.i = Len(call.path)
                                /\ Slice(call.path, call.start, call.i) = <<>>
                             THEN IF fpr /\ call.fixedLen > 0
                                  THEN [call.matched EXCEPT
                                          !.FPR = Slice(call.path, 0, Len(call.path) - 1)]
                                  ELSE [call.matched EXCEPT
                                          !.TSR = Slice(call.path, 0, Len(call.path) - 1)]
                             ELSE call.matched]

\* src/trie.go:175-189: the child node found for the segment; params is the
\* Params map the call writes to
descend(call, node, segment, params) ==
    IF nodes[node].name # <<>>
    THEN IF nodes[node].wildcard
         THEN [call EXCEPT !.pc = "switch", !.parent = node,
                           !.matched.Params =
                               setParam(params, nodes[node].name,
                                        Slice(call.path, call.start, Len(call.path)))]
         ELSE [call EXCEPT !.parent = node, !.start = call.i + 1, !.i = call.i + 1,
                           !.matched.Params =
                               setParam(params, nodes[node].name, capture(nodes[node], segment))]
    ELSE [call EXCEPT !.parent = node, !.start = call.i + 1, !.i = call.i + 1]

\* src/trie.go:156-160: the segment path[start:i] and its child
segmentStep(cs, c, segment, node) ==
    IF node = 0 THEN noChild(cs[c]) ELSE descend(cs[c], node, segment, ownParams(cs, c))

\* src/trie.go:152-190: one iteration of for i := 1; i <= end; i++
MatchIterate(c) ==
    /\ calls[c].pc = "loop"
    /\ Stepped(c,
          IF calls[c].i > Len(calls[c].path) THEN [calls[c] EXCEPT !.pc = "switch"]
          ELSE IF calls[c].i < Len(calls[c].path) /\ At(calls[c].path, calls[c].i) # "/"
          THEN [calls[c] EXCEPT !.i = calls[c].i + 1]
          ELSE segmentStep(calls, c, Slice(calls[c].path, calls[c].start, calls[c].i),
                           matchNode(nodes, calls[c].parent,
                                     IF ignoreCase
                                     THEN ToLower(Slice(calls[c].path, calls[c].start, calls[c].i))
                                     ELSE Slice(calls[c].path, calls[c].start, calls[c].i))))

\* src/trie.go:192-208: the switch after the loop and the return
MatchSwitch(c) ==
    /\ calls[c].pc = "switch"
    /\ Stepped(c, [calls[c] EXCEPT
                     !.pc = "done",
                     !.matched = matchEnd(nodes, opts, calls[c].path, calls[c].fixedLen,
                                          calls[c].parent, calls[c].matched.Params)])

\* the trie is built before the goroutines start to call Match
BuildStep == (\A c \in 1..MaxCallers : calls[c].pc = "idle") /\ DefineStep

BeginStep == \E c \in 1..MaxCallers : \E path \in inputs.paths : MatchBegin(c, path)

IterateStep == \E c \in 1..MaxCallers : MatchIterate(c)

SwitchStep == \E c \in 1..MaxCallers : MatchSwitch(c)

NextConc == BuildStep \/ BeginStep \/ IterateStep \/ SwitchStep

SpecConc == InitConc /\ [][NextConc]_vars

(***************************************************************************)
(* Handlers on the endpoints: Node.Handle on an endpoint a Define call     *)
(* returned, and Mux.Handle (src/mux/mux.go:76-81)                         *)
(***************************************************************************)
InitMux ==
    /\ New
    /\ ~fpr
    /\ ~tsr
    /\ inputs = [patterns |-> MuxPatterns, paths |-> {}, defines |-> MaxMuxDefines]

\* the methods registered on node n, in the order of the Handle calls that
\* returned
Registered(n) == IF n \in DOMAIN registered THEN registered[n] ELSE <<>>

\* the record of the registrations after a Handle call with outcome h
register(h, method) ==
    IF h.panic THEN registered
    ELSE [n \in (DOMAIN registered) \cup {h.node} |->
            IF n = h.node THEN Append(Registered(n), method) ELSE registered[n]]

\* the state after a Handle call with outcome h
Handled(h, method, handler) ==
    /\ nodes' = h.nodes
    /\ ret' = h.node
    /\ panicked' = h.panic
    /\ hcall' = [node |-> h.node, method |-> method, handler |-> handler]
    /\ registered' = register(h, method)
    /\ matched' = NoResult
    /\ handles' = handles + 1
    /\ UNCHANGED <<ignoreCase, fpr, tsr, defines, inputs, calls, otherwise, served>>

\* node.Handle(method, handler) on an endpoint
NodeHandle(n, method, handler) ==
    /\ handles < MaxHandles
    /\ Handled(Handle(nodes, n, method, handler), method, handler)
    /\ op' = "Handle"
    /\ arg' = <<>>
    /\ first' = first

\* m.trie.Define(pattern).Handle(strings.ToUpper(method), handler), r being
\* the outcome of Define
defineHandle(r, method, handler) ==
    IF r.panic THEN [nodes |-> r.nodes, node |-> 0, panic |-> TRUE]
    ELSE Handle(r.nodes, r.node, ToUpper(method), handler)

\* src/mux/mux.go:76-81
muxHandle(ns, method, pattern, handler, ic) ==
    IF method = <<>> THEN [nodes |-> ns, node |-> 0, panic |-> TRUE]
    ELSE defineHandle(DefineCall(ns, pattern, ic), method, handler)

\* m.Handle(method, pattern, handler)
MuxHandle(method, pattern, handler) ==
    /\ handles < MaxHandles
    /\ Handled(muxHandle(nodes, method, pattern, handler, ignoreCase), ToUpper(method), handler)
    /\ op' = "MuxHandle"
    /\ arg' = pattern
    /\ first' = IF method = <<>> THEN first
                ELSE recordFirst(DefineCall(nodes, pattern, ignoreCase), pattern)

NodeHandleStep ==
    \E n \in 1..Len(nodes) : \E method \in Methods : \E handler \in NodeHandlers :
        nodes[n].endpoint /\ NodeHandle(n, method, handler)

MuxHandleStep ==
    \E method \in Methods : \E pattern \in inputs.patterns : \E handler \in MuxHandlers :
        MuxHandle(method, pattern, handler)

NextMux == DefineStep \/ NodeHandleStep \/ MuxHandleStep

SpecMux == InitMux /\ [][NextMux]_vars

(***************************************************************************)
(* Mux.ServeHTTP (src/mux/mux.go:98-145) on the routes Mux.Handle made;    *)
(* res.Node.Methods[method] is the handler GetHandler gives and            *)
(* res.Node.AllowMethods the string GetAllow gives                         *)
(***************************************************************************)
InitServe ==
    /\ New
    /\ ~ignoreCase
    /\ inputs = [patterns |-> ServePatterns, paths |-> ServePaths, defines |-> 0]

\* the redirect written whatever the request method
redirectAlways301(res, method) ==
    Response(method, 301, IF res.FPR # <<>> THEN res.FPR ELSE res.TSR, <<>>, 0, <<>>)

\* src/mux/mux.go:106-116
redirect(res, method) ==
    Response(method, IF method # MethodGet THEN 307 ELSE 301,
             IF res.FPR # <<>> THEN res.FPR ELSE res.TSR, <<>>, 0, <<>>)

\* the branch of an endpoint without a handler for the method, the Otherwise
\* handler looked at before the OPTIONS method
missOtherwiseFirst(ns, node, other, method, params) ==
    IF other # 0 THEN Response(method, 0, <<>>, <<>>, other, params)
    ELSE IF method = MethodOptions THEN Response(method, 204, <<>>, ns[node].allow, 0, <<>>)
    ELSE Response(method, 405, <<>>, ns[node].allow, 0, <<>>)

\* src/mux/mux.go:127-140: the endpoint has no handler for the method
miss(ns, node, other, method, params) ==
    IF method = MethodOptions THEN Response(method, 204, <<>>, ns[node].allow, 0, <<>>)
    ELSE IF other = 0 THEN Response(method, 405, <<>>, ns[node].allow, 0, <<>>)
    ELSE Response(method, 0, <<>>, <<>>, other, params)

\* src/mux/mux.go:104-144, res being the result of Match
serve(res, ns, other, method) ==
    IF res.Node = 0
    THEN IF res.TSR # <<>> \/ res.FPR # <<>> THEN redirect(res, method)
         ELSE IF other = 0 THEN Response(method, 501, <<>>, <<>>, 0, <<>>)
         ELSE Response(method, 0, <<>>, <<>>, other, res.Params)
    ELSE IF GetHandler(ns, res.Node, method) # 0
    THEN Response(method, 0, <<>>, <<>>, GetHandler(ns, res.Node, method), res.Params)
    ELSE miss(ns, res.Node, other, method, res.Params)

\* m.ServeHTTP(w, req) for a request with the method and the URL path
ServeHTTP(method, path) ==
    /\ op' = "ServeHTTP"
    /\ arg' = path
    /\ ret' = 0
    /\ IF badPath(path)
       THEN panicked' = TRUE /\ matched' = NoResult /\ served' = NoResponse
       ELSE /\ panicked' = FALSE
            /\ matched' = MatchCall(nodes, opts, path)
            /\ served' = serve(MatchCall(nodes, opts, path), nodes, otherwise, method)
    /\ UNCHANGED <<ignoreCase, fpr, tsr, nodes, first, defines, inputs, calls, hcall, registered,
                   handles, otherwise>>

\* m.Otherwise(handler)
Otherwise(handler) ==
    /\ otherwise' = handler
    /\ op' = "Otherwise"
    /\ arg' = <<>>
    /\ ret' = 0
    /\ panicked' = FALSE
    /\ matched' = NoResult
    /\ UNCHANGED <<ignoreCase, fpr, tsr, nodes, first, defines, inputs, calls, hcall, registered,
                   handles, served>>

RouteStep ==
    \E method \in RouteMethods : \E pattern \in inputs.patterns : \E handler \in RouteHandlers :
        MuxHandle(method, pattern, handler)

OtherwiseStep == \E handler \in OtherwiseHandlers : Otherwise(handler)

ServeStep == \E method \in ServeMethods : \E path \in inputs.paths : ServeHTTP(method, path)

NextServe == RouteStep \/ OtherwiseStep \/ ServeStep

SpecServe == InitServe /\ [][NextServe]_vars

TypeOK ==
    /\ ret \in 0..Len(nodes)
    /\ matched.Node \in 0..Len(nodes)
    /\ defines \in 0..inputs.defines

(***************************************************************************)
(* The descent the specification describes, over the '/'-separated         *)
(* segments of a path and the parent links of the nodes                    *)
(***************************************************************************)
\* the segments of a path that begins with '/'
Segments(path) == Split(Slice(path, 1, Len(path)), "/")

\* the key a segment is looked up by
Key(seg) == IF ignoreCase THEN ToLower(seg) ELSE seg

\* a parametric node accepts a key: some text v, non-empty when a suffix is
\* required, with key = v + suffix and v matched by the regex
Accepting(child, key) ==
    \E k \in 0..Len(key) :
        /\ key = SubSeq(key, 1, k) \o child.suffix
        /\ child.suffix # <<>> => k >= 1
        /\ child.regex # <<>> => regexMatchString(child.regex, SubSeq(key, 1, k))

\* the child taken for a key: the literal child if there is one, otherwise
\* the first accepting parametric child in stored order, otherwise none
Pick(n, key) ==
    LET v  == nodes[n].varyChildren
        ok == {i \in 1..Len(v) : Accepting(nodes[v[i]], key)}
    IN  IF key \in DOMAIN nodes[n].children THEN nodes[n].children[key]
        ELSE IF ok # {} THEN v[CHOOSE i \in ok : \A j \in ok : i <= j]
        ELSE 0

RECURSIVE Walk(_, _, _)
\* the node the descent over segs[k..] from n ends on, 0 when a segment has
\* no child; a wildcard parameter ends the descent
Walk(n, segs, k) ==
    IF k > Len(segs) THEN n
    ELSE LET c == Pick(n, Key(segs[k]))
         IN  IF c = 0 THEN 0
             ELSE IF nodes[c].name # <<>> /\ nodes[c].wildcard THEN c
             ELSE Walk(c, segs, k + 1)

Reached(path) == Walk(1, Segments(path), 1)

\* fpr normalisation changes the path
Dirty(path) == fpr /\ Contains(path, <<"/", "/">>)

\* the path with every run of '/' collapsed to one '/'
Normalised(path) ==
    LET segs == Segments(path)
        full == SelectSeq(segs, LAMBDA x : x # <<>>)
    IN  <<"/">> \o Join(full) \o
        (IF full # <<>> /\ segs[Len(segs)] = <<>> THEN <<"/">> ELSE <<>>)

RECURSIVE Chain(_)
\* the nodes from below the root down to n, along the parent links
Chain(n) == IF n = 1 \/ n = 0 THEN <<>> ELSE Append(Chain(nodes[n].parent), n)

MatchDone == op = "Match" /\ ~panicked

(***************************************************************************)
(* C1: calling Define(p) again for an already defined pattern p, written   *)
(* with or without its leading '/', returns the node the first Define(p)   *)
(* returned and creates no node.                                           *)
(* The code returns the literal child ':x' for the pattern '/:x' once      *)
(* '/::x' has been defined, whatever Define('/:x') returned before.        *)
(***************************************************************************)
SamePattern(p, q) == TrimPrefix(p, <<"/">>) = TrimPrefix(q, <<"/">>)

C1_Redefine ==
    [][(op' = "Define" /\ \E q \in DOMAIN first : SamePattern(q, arg'))
         => /\ ~panicked'
            /\ \A q \in DOMAIN first : SamePattern(q, arg') => ret' = first[q]
            /\ Len(nodes') = Len(nodes)]_vars

Captured(path, c, i) ==
    LET segs == Segments(path)
    IN  IF nodes[c].wildcard THEN Join(SubSeq(segs, i, Len(segs)))
        ELSE SubSeq(segs[i], 1, Len(segs[i]) - Len(nodes[c].suffix))

ExpectedParams(path, n) ==
    LET ch    == Chain(n)
        named == {i \in 1..Len(ch) : nodes[ch[i]].name # <<>>}
        names == {nodes[ch[i]].name : i \in named}
        last(nm) == CHOOSE i \in named : /\ nodes[ch[i]].name = nm
                                         /\ \A j \in named : nodes[ch[j]].name = nm => j <= i
    IN  [nm \in names |-> Captured(path, ch[last(nm)], last(nm))]

C3_CapturesExact ==
    (MatchDone /\ matched.Node # 0) => matched.Params = ExpectedParams(arg, matched.Node)

\* with ignore_case on, a capture that keeps an upper-case letter of the path
C3_Witness_UpperCaseCapture ==
    /\ MatchDone
    /\ ignoreCase
    /\ matched.Node # 0
    /\ \E nm \in DOMAIN matched.Params :
          \E i \in 1..Len(matched.Params[nm]) : matched.Params[nm][i] \in DOMAIN Lower

(***************************************************************************)
(* C4: the parametric children of every parent are stored in the order     *)
(* suffix+regex, suffix only, regex only, bare, wildcard, siblings of one  *)
(* class in definition order, and matchNode returns the first accepting    *)
(* child of that order.                                                    *)
(***************************************************************************)
Class(n) ==
    IF nodes[n].wildcard THEN 5
    ELSE IF nodes[n].suffix # <<>> /\ nodes[n].regex # <<>> THEN 1
    ELSE IF nodes[n].suffix # <<>> THEN 2
    ELSE IF nodes[n].regex # <<>> THEN 3
    ELSE 4

\* a comes before b in the priority order; node numbers follow definition order
Before(a, b) == Class(a) < Class(b) \/ (Class(a) = Class(b) /\ a < b)

TestKeys == { <<>>, <<"a">>, <<"b">>, <<"a", "S">>, <<"b", "S">>, <<"S">>, <<"a", "s">> }

C4_VaryOrder ==
    \A n \in 1..Len(nodes) :
        LET v == nodes[n].varyChildren
        IN  /\ \A i, j \in 1..Len(v) : i < j => Before(v[i], v[j])
            /\ \A key \in TestKeys :
                  LET ok == {c \in {v[i] : i \in 1..Len(v)} : Accepting(nodes[c], key)}
                      m  == matchNode(nodes, n, key)
                  IN  key \notin DOMAIN nodes[n].children =>
                         IF ok = {} THEN m = 0
                         ELSE m \in ok /\ \A c \in ok : c = m \/ Before(m, c)

\* three parametric siblings stored in an order that is not the order of definition
C4_Witness_Reordered ==
    \E n \in 1..Len(nodes) :
        LET v == nodes[n].varyChildren
        IN  /\ Len(v) >= 3
            /\ \E i, j \in 1..Len(v) : i < j /\ v[i] > v[j]

(***************************************************************************)
(* C5: with tsr on and a path that ends in '/' and is not changed by       *)
(* normalisation, if the descent over the path without its final '/' ends  *)
(* on an endpoint (not a wildcard, which would take the '/' too) that has  *)
(* no literal '' child, Match returns no node and                          *)
(* TSR = the path without the final '/', whatever parametric children the  *)
(* endpoint has.                                                           *)
(* The code hands the empty last segment to matchNode, where a bare or     *)
(* wildcard parameter accepts it: '/abc/' is then matched by '/abc/:name'. *)
(***************************************************************************)
C5_TrailingSlashRemoved ==
    (/\ MatchDone
     /\ tsr
     /\ ~Dirty(arg)
     /\ Len(arg) >= 2
     /\ arg[Len(arg)] = "/"
     /\ LET n == Reached(SubSeq(arg, 1, Len(arg) - 1))
        IN  n # 0 /\ nodes[n].endpoint /\ ~nodes[n].wildcard /\ getChild(nodes, n, <<>>) = 0)
    => (matched.Node = 0 /\ matched.TSR = SubSeq(arg, 1, Len(arg) - 1))

(***************************************************************************)
(* C6: with tsr on and a path not changed by normalisation, when the       *)
(* descent consumes the path and ends on a node that is not an endpoint    *)
(* and has a literal '' child, Match returns no node and TSR = path + '/'; *)
(* when it ends on an endpoint, TSR is empty.                              *)
(***************************************************************************)
C6_TrailingSlashAdded ==
    (MatchDone /\ tsr /\ ~Dirty(arg) /\ Reached(arg) # 0) =>
        LET n == Reached(arg)
        IN  /\ (~nodes[n].endpoint /\ getChild(nodes, n, <<>>) # 0)
                  => (matched.Node = 0 /\ matched.TSR = arg \o <<"/">>)
            /\ nodes[n].endpoint => matched.TSR = <<>>

\* the descent ends on a non-endpoint with a '' child
C6_Witness_SlashAdded ==
    /\ MatchDone
    /\ tsr
    /\ ~Dirty(arg)
    /\ Reached(arg) # 0
    /\ ~nodes[Reached(arg)].endpoint
    /\ getChild(nodes, Reached(arg), <<>>) # 0
    /\ matched.TSR = arg \o <<"/">>

(***************************************************************************)
(* C7: with fpr on and a path p that contains '//', q being p with every   *)
(* run of '/' collapsed: Match(p) has no node and no TSR, and its FPR is q *)
(* when Match(q) has a node, Match(q).TSR when Match(q) has a TSR, and     *)
(* empty otherwise.                                                        *)
(***************************************************************************)
C7_FixedPathRedirect ==
    (MatchDone /\ fpr /\ Contains(arg, <<"/", "/">>)) =>
        LET q  == Normalised(arg)
            mq == MatchCall(nodes, opts, q)
        IN  /\ matched.Node = 0
            /\ matched.TSR = <<>>
            /\ matched.FPR = IF mq.Node # 0 THEN q
                             ELSE IF mq.TSR # <<>> THEN mq.TSR
                             ELSE <<>>

\* a path with '//' whose normalisation gives a trailing-slash redirect
C7_Witness_FprOverTsr ==
    /\ MatchDone
    /\ fpr
    /\ Contains(arg, <<"/", "/">>)
    /\ MatchCall(nodes, opts, Normalised(arg)).TSR # <<>>
    /\ matched.FPR = MatchCall(nodes, opts, Normalised(arg)).TSR

(***************************************************************************)
(* C8: a trie built with fpr off returns an empty FPR and matches a path   *)
(* with '//' as given, its empty segments included; a trie built with tsr  *)
(* off returns an empty TSR.                                               *)
(***************************************************************************)
C8_OptionsOff ==
    MatchDone =>
        /\ ~fpr => /\ matched.FPR = <<>>
                   /\ matched.Node = IF Reached(arg) # 0 /\ nodes[Reached(arg)].endpoint
                                     THEN Reached(arg) ELSE 0
        /\ ~tsr => matched.TSR = <<>>

\* both options off, for a path the trie redirects when they are on
C8_Witness_WouldRedirect ==
    /\ MatchDone
    /\ ~fpr
    /\ ~tsr
    /\ Contains(arg, <<"/", "/">>)
    /\ MatchCall(nodes, [opts EXCEPT !.fpr = TRUE, !.tsr = TRUE], arg).FPR # <<>>
    /\ matched = NoResult

(***************************************************************************)
(* C9: no successful Match binds a parameter that is not a wildcard to     *)
(* the empty string; with only '/:type' defined, Match('/') has no node.   *)
(* The code gives matchNode the empty segment of '/', and a bare           *)
(* parameter accepts it.                                                   *)
(***************************************************************************)
C9_NonEmptyCapture ==
    (MatchDone /\ matched.Node # 0) =>
        \A i \in 1..Len(Chain(matched.Node)) :
            LET c == Chain(matched.Node)[i]
            IN  (nodes[c].name # <<>> /\ ~nodes[c].wildcard)
                    => Captured(arg, c, i) # <<>>

(***************************************************************************)
(* C10: ignore_case changes the lookup of literal children only: on a trie *)
(* without literal children Match gives the same result with ignore_case   *)
(* on and off.                                                             *)
(* The code tests suffix and regex on the folded segment: with ignore_case *)
(* on, ':x+S' never accepts '/aS'.                                         *)
(***************************************************************************)
C10_ParametricIgnoresCase ==
    (MatchDone /\ \A n \in 1..Len(nodes) : DOMAIN nodes[n].children = {}) =>
        matched = MatchCall(nodes, [opts EXCEPT !.ignoreCase = ~ignoreCase], arg)

(***************************************************************************)
(* The last segment of a pattern and the parametric siblings it meets      *)
(***************************************************************************)
\* the segments Define splits a pattern into
DefSegments(pattern) == Split(trimPattern(TrimPrefix(pattern, <<"/">>)), "/")

\* the parametric children of node n
VaryOf(n) == {nodes[n].varyChildren[i] : i \in 1..Len(nodes[n].varyChildren)}

\* the pattern is one ':' segment below the root that parses to a parameter
RootColon(pattern) ==
    /\ Len(DefSegments(pattern)) = 1
    /\ DefSegments(pattern)[1] # <<>>
    /\ DefSegments(pattern)[1][1] = ":"
    /\ ~doubleColonReg(DefSegments(pattern)[1])
    /\ parseParam(DefSegments(pattern)[1]).ok

\* the literal child of the root keyed by the one segment of the pattern
RootLiteral(pattern) == getChild(nodes, 1, segmentKey(DefSegments(pattern)[1], ignoreCase))

\* such a segment that is not the key of a literal child of the root
RootParam(pattern) == RootColon(pattern) /\ RootLiteral(pattern) = 0

\* the parameter the one segment of the pattern parses to
ParamOf(pattern) == parseParam(DefSegments(pattern)[1])

\* sibling c has the suffix and the regex source of parameter p, an absent
\* regex on both sides counting as equal
Twin(c, p) == nodes[c].suffix = p.suffix /\ nodes[c].regex = p.regex

NamesAgree ==
    \A n \in 1..Len(nodes) : \A a, b \in VaryOf(n) :
        (/\ ~nodes[a].wildcard
         /\ ~nodes[b].wildcard
         /\ nodes[a].suffix = nodes[b].suffix
         /\ nodes[a].regex = nodes[b].regex)
            => nodes[a].name = nodes[b].name

Wildcards(n) == {c \in VaryOf(n) : nodes[c].wildcard}

AtMostOneWildcard == \A n \in 1..Len(nodes) : Cardinality(Wildcards(n)) <= 1

Same(c, p) == ~nodes[c].wildcard /\ Twin(c, p) /\ nodes[c].name = p.name

WildcardParam(n) == nodes[n].name # <<>> /\ nodes[n].wildcard

\* the segment is written ':name*'
WildcardSegment(seg) ==
    /\ Len(seg) >= 3
    /\ seg[1] = ":"
    /\ seg[Len(seg)] = "*"
    /\ wordReg(SubSeq(seg, 2, Len(seg) - 1))

\* the pattern has a segment after a ':name*' segment
SegmentAfterWildcard(pattern) ==
    \E k \in 1..(Len(DefSegments(pattern)) - 1) : WildcardSegment(DefSegments(pattern)[k])

C13_WildcardIsLeaf ==
    [][/\ \A n \in 1..Len(nodes') :
            (nodes'[n].name # <<>> /\ nodes'[n].wildcard) =>
                nodes'[n].children = NoChildren /\ nodes'[n].varyChildren = <<>>
       /\ (op' = "Define" /\ SegmentAfterWildcard(arg')) => panicked'
       /\ (op' = "Match" /\ ~panicked') =>
            \A w \in Wildcards(1) :
                (/\ matchNode(nodes, 1, Key(Segments(arg')[1])) = w
                 /\ ~Contains(arg', <<"/", "/">>)) =>
                    matched' = matchEnd(nodes, opts, arg', IF fpr THEN 0 ELSE Len(arg'), w,
                                        setParam(<<>>, nodes[w].name, Slice(arg', 1, Len(arg'))))]_vars

(***************************************************************************)
(* C14: Define(p + '?' + q) returns the endpoint Define(p) returns, for    *)
(* every query string q: it panics exactly when Define(p) panics and       *)
(* builds the same nodes, the recorded pattern text apart.                 *)
(* The code tests the whole pattern string, query included, for '//'       *)
(* before it cuts the query off, so Define('/a?//') panics.                *)
(***************************************************************************)
\* the pattern without its query
BeforeQuery(pattern) ==
    IF IndexRune(pattern, "?") > -1 THEN Slice(pattern, 0, IndexRune(pattern, "?")) ELSE pattern

\* the node store without the pattern texts
Shape(ns) == [n \in 1..Len(ns) |-> [ns[n] EXCEPT !.pattern = <<>>]]

C14_QueryIgnored ==
    [][(op' = "Define" /\ IndexRune(arg', "?") > -1) =>
          /\ panicked' = DefineCall(nodes, BeforeQuery(arg'), ignoreCase).panic
          /\ ret' = DefineCall(nodes, BeforeQuery(arg'), ignoreCase).node
          /\ Shape(nodes') = Shape(DefineCall(nodes, BeforeQuery(arg'), ignoreCase).nodes)]_vars

(***************************************************************************)
(* C15: the pattern of an endpoint is the pattern string of the first      *)
(* Define call that ended on it: a Define that makes a node an endpoint    *)
(* stores its pattern string there, and a Define that ends on an existing  *)
(* endpoint leaves the pattern of every endpoint as it was.                *)
(* The code takes an empty stored pattern for 'not yet set', so after      *)
(* Define('') the endpoint has the pattern '' and Define('/') replaces it  *)
(* by '/'.                                                                 *)
(***************************************************************************)
\* node n was an endpoint before the step
WasEndpoint(n) == n \in 1..Len(nodes) /\ nodes[n].endpoint

C15_FirstPatternKept ==
    [][(op' = "Define" /\ ~panicked') =>
          /\ nodes'[ret'].pattern = (IF WasEndpoint(ret') THEN nodes[ret'].pattern ELSE arg')
          /\ \A n \in 1..Len(nodes) :
                nodes[n].endpoint => nodes'[n].pattern = nodes[n].pattern]_vars

(***************************************************************************)
(* C16: Define panics for every pattern in which '*' appears anywhere      *)
(* other than as the last character of a ':name*' segment, a '*' inside    *)
(* or at the end of a literal segment included.  (A segment escaped by     *)
(* '::' is left aside.)                                                    *)
(* The code refuses a literal segment only when it begins with '*': 'a*'   *)
(* is stored as a literal child under the key 'a' with the wildcard flag   *)
(* set, and 'a*b' as the literal child 'a*b'.                              *)
(***************************************************************************)
\* the segment has a '*' that is not the last character of ':name*'
StrayStar(seg) ==
    /\ ~doubleColonReg(seg)
    /\ \E i \in 1..Len(seg) : seg[i] = "*" /\ ~(WildcardSegment(seg) /\ i = Len(seg))

C16_StarOnlyEndsWildcard ==
    [][(op' = "Define" /\ \E k \in 1..Len(DefSegments(arg')) : StrayStar(DefSegments(arg')[k]))
          => panicked']_vars

(***************************************************************************)
(* C17: Match panics when the path is empty or does not begin with '/',    *)
(* and for every path that begins with '/' it returns without a panic:     *)
(* along the walk every segment given to a parameter with a suffix is      *)
(* at least as long as the suffix cut off it, and the node returned is nil *)
(* or an endpoint of the trie.                                             *)
(***************************************************************************)
\* the path Match walks
Walked(path) == IF fpr THEN fixPath(path) ELSE path

RECURSIVE SlicesInRange(_, _, _)
\* segment[0 : len(segment)-len(suffix)] is in range at every node the walk
\* over segs[k..] takes from n
SlicesInRange(n, segs, k) ==
    IF k > Len(segs) \/ matchNode(nodes, n, Key(segs[k])) = 0 THEN TRUE
    ELSE /\ Len(segs[k]) >= Len(nodes[matchNode(nodes, n, Key(segs[k]))].suffix)
         /\ SlicesInRange(matchNode(nodes, n, Key(segs[k])), segs, k + 1)

C17_MatchPanicsOnBadPath ==
    op = "Match" =>
        /\ panicked <=> (arg = <<>> \/ arg[1] # "/")
        /\ ~panicked =>
              /\ SlicesInRange(1, Segments(Walked(arg)), 1)
              /\ matched.Node \in 0..Len(nodes)
              /\ matched.Node # 0 => nodes[matched.Node].endpoint

\* Match was called with a non-empty path that does not begin with '/'
C17_Witness_NoLeadingSlash ==
    /\ op = "Match"
    /\ panicked
    /\ arg # <<>>
    /\ arg[1] # "/"

(***************************************************************************)
(* C18: Match leaves the trie unchanged and writes only to the result and  *)
(* the Params map of its own call: however the steps of concurrent Match   *)
(* calls on a built trie interleave, every call ends with the result it    *)
(* gives when it runs alone, and panics exactly when it panics alone.      *)
(***************************************************************************)
C18_MatchReadsOnly ==
    [][/\ op' # "Define" => nodes' = nodes
       /\ \A c \in 1..MaxCallers :
            /\ calls'[c].pc = "panic" => badPath(calls'[c].arg)
            /\ calls'[c].pc \in {"loop", "switch", "done"} => ~badPath(calls'[c].arg)
            /\ calls'[c].pc = "done" =>
                  calls'[c].matched = MatchCall(nodes', opts', calls'[c].arg)]_vars

\* two calls are in their loops at the same time, each having captured a
\* parameter the other has not
C18_Witness_Interleaved ==
    /\ calls[1].pc = "loop"
    /\ calls[2].pc = "loop"
    /\ calls[1].matched.Params # <<>>
    /\ calls[2].matched.Params # <<>>
    /\ DOMAIN calls[1].matched.Params # DOMAIN calls[2].matched.Params

(***************************************************************************)
(* C19: a Handle call for a method that already has a handler on the       *)
(* endpoint panics and leaves the handlers and the allow string of every   *)
(* node as they were; Mux.Handle does so for the upper-cased method on the *)
(* endpoint its pattern resolves to, '' and '/' resolving to the same one. *)
(***************************************************************************)
\* the handlers and the allow strings of the nodes that existed before the
\* step are as they were
HandlersKept ==
    \A n \in 1..Len(nodes) :
        nodes'[n].handlers = nodes[n].handlers /\ nodes'[n].allow = nodes[n].allow

\* the endpoint an existing pattern resolves to, 0 if Define panics or
\* creates the endpoint
Resolved(pattern) ==
    IF DefineCall(nodes, pattern, ignoreCase).panic THEN 0
    ELSE IF DefineCall(nodes, pattern, ignoreCase).node > Len(nodes) THEN 0
    ELSE DefineCall(nodes, pattern, ignoreCase).node

C19_DuplicateHandlePanics ==
    [][/\ (op' = "Handle" /\ GetHandler(nodes, hcall'.node, hcall'.method) # 0)
            => panicked' /\ nodes' = nodes
       /\ (/\ op' = "MuxHandle"
           /\ Resolved(arg') # 0
           /\ \E m \in Methods :
                 /\ ToUpper(m) = hcall'.method
                 /\ m # <<>>
                 /\ GetHandler(nodes, Resolved(arg'), ToUpper(m)) # 0)
            => panicked' /\ HandlersKept /\ Len(nodes') = Len(nodes)]_vars

\* Mux.Handle with the pattern '' refused a method that is registered on
\* the endpoint defined as '/'
C19_Witness_MuxDuplicate ==
    /\ op = "MuxHandle"
    /\ panicked
    /\ arg = <<>>
    /\ hcall.method = <<"G">>
    /\ \E n \in 1..Len(nodes) :
          /\ nodes[n].endpoint
          /\ nodes[n].pattern = <<"/">>
          /\ GetHandler(nodes, n, <<"G">>) # 0

(***************************************************************************)
(* C20: after any sequence of Handle calls on an endpoint, its allow       *)
(* string is the ', '-joined list of exactly the methods that have a       *)
(* handler there, each once, in the order they were registered.            *)
(* The code takes an empty allow string for 'no method yet' and a nil      *)
(* handler for 'no handler': after Handle('', h) and Handle('G', h) the    *)
(* allow string is 'G', not ', G'.                                         *)
(***************************************************************************)
RECURSIVE JoinComma(_)
\* strings.Join(methods, ", ")
JoinComma(methods) ==
    IF Len(methods) = 0 THEN <<>>
    ELSE IF Len(methods) = 1 THEN methods[1]
    ELSE methods[1] \o <<",", " ">> \o JoinComma(Tail(methods))

C20_AllowListsHandlers ==
    \A n \in 1..Len(nodes) :
        /\ nodes[n].allow = JoinComma(Registered(n))
        /\ {Registered(n)[i] : i \in 1..Len(Registered(n))}
              = {m \in DOMAIN nodes[n].handlers : nodes[n].handlers[m] # 0}
        /\ \A i, j \in 1..Len(Registered(n)) : Registered(n)[i] = Registered(n)[j] => i = j

(***************************************************************************)
(* C21: when Match returns an FPR or TSR target, ServeHTTP answers with a  *)
(* redirect, status 301 for the method GET and 307 for any other method,   *)
(* Location being FPR if it is not empty and TSR otherwise, and calls      *)
(* neither a route handler nor the Otherwise handler.                      *)
(***************************************************************************)
Served == op = "ServeHTTP" /\ ~panicked

C21_RedirectAnswered ==
    (Served /\ (matched.FPR # <<>> \/ matched.TSR # <<>>)) =>
        /\ served.code = (IF served.method = MethodGet THEN 301 ELSE 307)
        /\ served.location = (IF matched.FPR # <<>> THEN matched.FPR ELSE matched.TSR)
        /\ served.location # <<>>
        /\ served.handler = 0

\* a PUT request was redirected to the path with the trailing slash while
\* an Otherwise handler is set
C21_Witness_Redirect307 ==
    /\ Served
    /\ matched.TSR # <<>>
    /\ served.method = MethodPut
    /\ served.code = 307
    /\ otherwise # 0

(***************************************************************************)
(* C22: for a request whose match carries no redirect: no endpoint matched *)
(* gives the Otherwise handler if one is set and 501 if none is; an        *)
(* endpoint with a handler for the request method gives that handler; an   *)
(* endpoint without one gives 204 with Allow for the method OPTIONS, also  *)
(* when Otherwise is set, and for another method the Otherwise handler if  *)
(* one is set and 405 with Allow if none is.                               *)
(***************************************************************************)
\* the handler was called and no status written by ServeHTTP itself
Called(handler) == served.handler = handler /\ served.code = 0

\* the status was written, with the Allow header, and no handler called
Answered(code, allow) == served.code = code /\ served.allow = allow /\ served.handler = 0

C22_Dispatch ==
    (Served /\ matched.FPR = <<>> /\ matched.TSR = <<>>) =>
        IF matched.Node = 0
        THEN IF otherwise # 0 THEN Called(otherwise) ELSE Answered(501, <<>>)
        ELSE IF GetHandler(nodes, matched.Node, served.method) # 0
        THEN Called(GetHandler(nodes, matched.Node, served.method))
        ELSE IF served.method = MethodOptions
        THEN Answered(204, nodes[matched.Node].allow)
        ELSE IF otherwise # 0 THEN Called(otherwise)
        ELSE Answered(405, nodes[matched.Node].allow)

\* an OPTIONS request on an endpoint without an OPTIONS handler was answered
\* with 204 and the Allow header although an Otherwise handler is set
C22_Witness_OptionsBeforeOtherwise ==
    /\ Served
    /\ matched.Node # 0
    /\ served.method = MethodOptions
    /\ GetHandler(nodes, matched.Node, MethodOptions) = 0
    /\ otherwise # 0
    /\ served.code = 204
    /\ served.allow = MethodGet

(***************************************************************************)
(* C23: literal and parametric children are kept apart in either order of  *)
(* definition: Define of a ':name' segment returns a parametric node that  *)
(* captures 'name', Define of '::name' returns a literal node keyed        *)
(* ':name', and afterwards the path segment ':name' is matched by the      *)
(* literal node and any other segment by the parameter.                    *)
(* The code looks the segment ':x' up among the literal children before it *)
(* parses it: after Define('/::x') the call Define('/:x') returns the      *)
(* literal node ':x' and no parametric node is made.                       *)
(***************************************************************************)
\* the pattern is one escaped segment '::name' below the root
RootEscaped(pattern) ==
    Len(DefSegments(pattern)) = 1 /\ doubleColonReg(DefSegments(pattern)[1])

C23_LiteralAndParamApart ==
    [][/\ (op' = "Define" /\ ~panicked' /\ RootColon(arg')) =>
            /\ nodes'[ret'].name = ParamOf(arg').name
            /\ ret' \in {nodes'[1].varyChildren[i] : i \in 1..Len(nodes'[1].varyChildren)}
       /\ (op' = "Define" /\ ~panicked' /\ RootEscaped(arg')) =>
            /\ nodes'[ret'].name = <<>>
            /\ getChild(nodes', 1, segmentKey(DefSegments(arg')[1], ignoreCase)) = ret'
       /\ (op' = "Match" /\ ~panicked' /\ Len(Segments(arg')) = 1 /\ ~Dirty(arg')) =>
            /\ matched'.Node # 0 => matched'.Node = Pick(1, Key(Segments(arg')[1]))
            /\ (getChild(nodes, 1, Key(Segments(arg')[1])) # 0 /\ matched'.Node # 0)
                  => matched'.Node = getChild(nodes, 1, Key(Segments(arg')[1]))]_vars

(***************************************************************************)
(* C24: whenever Match(p) returns a non-empty FPR or TSR target r, Match(r) *)
(* on the same trie returns a node, with FPR and TSR empty: following a    *)
(* redirect leads neither to another redirect nor to no match.             *)
(***************************************************************************)
\* the redirect target of the last Match
Target == IF matched.FPR # <<>> THEN matched.FPR ELSE matched.TSR

AllLiteral(pattern) ==
    /\ ~badPath(pattern)
    /\ ~Contains(pattern, <<"?">>)
    /\ \A k \in 1..Len(DefSegments(pattern)) :
          /\ ~HasPrefix(DefSegments(pattern)[k], <<":">>)
          /\ ~Contains(DefSegments(pattern)[k], <<"*">>)

C25_LiteralRouteKept ==
    \A p \in DOMAIN first :
        AllLiteral(p) =>
            /\ MatchCall(nodes, opts, p).Node = first[p]
            /\ nodes[first[p]].endpoint

(***************************************************************************)
(* C26: a Define call that panics leaves the trie observably unchanged:    *)
(* every pattern is accepted or refused by a later Define, and every path  *)
(* is answered by a later Match, as before the failed call.                *)
(* The code attaches each node as it goes, so the nodes of the segments    *)
(* before the one that is refused stay in the trie: after the refused      *)
(* Define('/:x*/a') the wildcard ':x*' is a child of the root.             *)
(***************************************************************************)
C26_PanicLeavesTrie ==
    [][(op' = "Define" /\ panicked') =>
          /\ \A q \in inputs.patterns :
                DefineCall(nodes', q, ignoreCase).panic = DefineCall(nodes, q, ignoreCase).panic
          /\ \A path \in inputs.paths :
                ~badPath(path) => MatchCall(nodes', opts, path) = MatchCall(nodes, opts, path)]_vars

(***************************************************************************)
(* C27: a successful Define(q) never takes away an existing match: a path  *)
(* on which Match returned a node before it still gets a node after it.    *)
(* Match tries the literal child first and the parametric siblings in      *)
(* their stored order and never goes back, so a node that Define(q)        *)
(* created can take a segment of the path ahead of the node that took it   *)
(* before, and lead nowhere: after Define('/:x') and Define('/b/c') the    *)
(* path '/b' has no match.  What holds is that the result of Match on such *)
(* a path is the same after Define(q) unless a node created by Define(q)   *)
(* now takes one of the segments of the path.                              *)
(***************************************************************************)
\* the node the k-th segment of the path is looked up from, along the
\* descent that ended on node n before the step
From(n, k) == IF k = 1 THEN 1 ELSE Chain(n)[k - 1]

\* after the step a node the step created takes a segment of the path whose
\* descent ended on node n before the step
Taken(path, n) ==
    \E k \in 1..Len(Chain(n)) :
        matchNode(nodes', From(n, k), Key(Segments(path)[k])) > Len(nodes)

\* Match returned a node for its path, and the step is a successful Define
DefinedAfterMatch ==
    /\ MatchDone
    /\ matched.Node # 0
    /\ op' = "Define"
    /\ ~panicked'

C27_MatchKept ==
    [][DefinedAfterMatch => MatchCall(nodes', opts, arg).Node # 0]_vars

C27_MatchKeptUnlessTaken ==
    [][DefinedAfterMatch =>
          \/ MatchCall(nodes', opts, arg) = matched
          \/ Taken(arg, matched.Node)]_vars

\* a Define has created a second endpoint and the path of an older endpoint
\* is still matched by it
C27_Witness_OlderMatchKept ==
    /\ op = "Define"
    /\ ~panicked
    /\ \E path \in inputs.paths :
          /\ ~badPath(path)
          /\ MatchCall(nodes, opts, path).Node \notin {0, ret}
          /\ MatchCall(nodes, opts, path).Node < ret

(***************************************************************************)
(* C28: whether a set of patterns can all be defined without a panic, and  *)
(* the result of Match on the trie so built when the parametric siblings   *)
(* fall in different priority classes, do not depend on the order of the   *)
(* Define calls.                                                           *)
(* A wildcard sibling is accepted after a non-wildcard parametric sibling  *)
(* and a non-wildcard one is refused after a wildcard, so ':x', ':x*' can  *)
(* be defined in this order only.  What holds, for two patterns that meet  *)
(* at no key (no segment of one is looked up under the key the other       *)
(* stored a segment of another kind under): the second order is refused    *)
(* exactly when it adds a non-wildcard parametric sibling to a wildcard,   *)
(* and when both orders are accepted Match answers every path alike.       *)
(***************************************************************************)
\* the trie New returns
Empty == << newNode(<<>>, 0) >>

\* two different patterns have been defined, both without a panic, the
\* second by the last step
TwoDefined ==
    /\ op = "Define"
    /\ ~panicked
    /\ defines = 2
    /\ Cardinality(DOMAIN first) = 2
    /\ arg \in DOMAIN first

\* the pattern defined first
Earlier == CHOOSE p \in DOMAIN first : p # arg

\* the two Define calls in the other order, on a new trie
LaterAlone == DefineCall(Empty, arg, ignoreCase)

Swapped == DefineCall(LaterAlone.nodes, Earlier, ignoreCase)

\* how a segment is written: escaped by '::', a parameter, a literal that
\* ends with '*', or a plain literal
Kind(seg) ==
    IF doubleColonReg(seg) THEN "escaped"
    ELSE IF HasPrefix(seg, <<":">>) THEN "param"
    ELSE IF seg # <<>> /\ seg[Len(seg)] = "*" THEN "star"
    ELSE "plain"

\* the key the segment is stored under, or looked up by, among the literal
\* children
StoredKey(seg) ==
    IF Kind(seg) = "star"
    THEN Slice(segmentKey(seg, ignoreCase), 0, Len(seg) - 1)
    ELSE segmentKey(seg, ignoreCase)

\* the first k - 1 segments of the two patterns lead to the same node
SamePrefix(p, q, k) ==
    /\ k <= Len(DefSegments(p))
    /\ k <= Len(DefSegments(q))
    /\ \A j \in 1..(k - 1) : DefSegments(p)[j] = DefSegments(q)[j]

\* the two patterns meet at a key: under the same parent a segment of one
\* has the key of a segment of the other that is written in another way,
\* or that is stored anew by every Define
KeyClash(p, q) ==
    \E k \in 1..Len(DefSegments(p)) :
        /\ SamePrefix(p, q, k)
        /\ StoredKey(DefSegments(p)[k]) = StoredKey(DefSegments(q)[k])
        /\ \/ Kind(DefSegments(p)[k]) # Kind(DefSegments(q)[k])
           \/ Kind(DefSegments(p)[k]) = "star"

\* under the same parent p has a non-wildcard parameter where q has a
\* wildcard
WildcardBeside(p, q) ==
    \E k \in 1..Len(DefSegments(p)) :
        /\ SamePrefix(p, q, k)
        /\ Kind(DefSegments(p)[k]) = "param"
        /\ Kind(DefSegments(q)[k]) = "param"
        /\ ~WildcardSegment(DefSegments(p)[k])
        /\ WildcardSegment(DefSegments(q)[k])

\* a node, named by the Define calls that returned it
Who(n, e, l) ==
    IF n = 0 THEN {}
    ELSE {"node"} \cup (IF n = e THEN {"earlier"} ELSE {}) \cup (IF n = l THEN {"later"} ELSE {})

\* what Match answers after the two Define calls as made, and in the other
\* order
Answer(path) ==
    [MatchCall(nodes, opts, path) EXCEPT
        !.Node = Who(MatchCall(nodes, opts, path).Node, first[Earlier], ret)]

SwappedAnswer(path) ==
    [MatchCall(Swapped.nodes, opts, path) EXCEPT
        !.Node = Who(MatchCall(Swapped.nodes, opts, path).Node, Swapped.node, LaterAlone.node)]

SameAnswers ==
    \A path \in inputs.paths : ~badPath(path) => Answer(path) = SwappedAnswer(path)

Set(r) ==
    (IF r.Node # 0 THEN 1 ELSE 0) + (IF r.FPR # <<>> THEN 1 ELSE 0)
        + (IF r.TSR # <<>> THEN 1 ELSE 0)

C30_OneOfNodeFprTsr == MatchDone => Set(matched) <= 1

\* the fixed path of a path with a doubled slash ends on an endpoint: the
\* result is the FPR redirect alone
C30_Witness_EndpointBehindFpr ==
    /\ MatchDone
    /\ Dirty(arg)
    /\ matched.FPR = Walked(arg)
    /\ matched.Node = 0
    /\ MatchCall(nodes, opts, matched.FPR).Node # 0

====
